---- MODULE Spec2Model ----
(***************************************************************************)
(* Sockittt (src/src/index.ts): a WebSocket wrapper that reconnects on     *)
(* abnormal closure.  The model covers the instance fields (ws, attempts,  *)
(* timer), the public methods (send, close, open), the four socket event   *)
(* handlers installed by open(), the private reconnect() procedure and the *)
(* setTimeout callback it schedules.  The transport and the host timer     *)
(* queue are the environment: each socket has a readyState, the timer      *)
(* queue is the set of scheduled, not yet fired or cleared, handles.       *)
(* Everything runs on one event loop, so every handler is one atomic step. *)
(* The delay passed to setTimeout (options.timeout || 1000) is not         *)
(* modelled: a scheduled timer fires at some later step.                   *)
(***************************************************************************)
EXTENDS Integers, Sequences, FiniteSets, TLC

\* ---------------------------------------------------------------- bounds
MaxSockets == 3          \* sockets created in one behaviour
MaxAttemptsOpt == 2      \* largest finite options.maxAttempts explored

\* ------------------------------------------------------------- constants
Null == 0                \* timer: the initial value, null
Undefined == -1          \* timer: undefined, the value close() leaves behind
Infinity == 1000000      \* options.maxAttempts default, above every count
NoSocket == 0            \* this.ws === null
NoOption == -1           \* an option the caller did not pass

NormalCodes == {1000, 1001, 1005}
CloseEventCodes == {1000, 1001, 1005, 1006}   \* codes a close event reports
CloseArgs == {0, 4000}                        \* close(code): 0 is "no code"
ErrCodes == {"ECONNREFUSED", "OTHER"}         \* error event: marker or not
Payloads == {1}                               \* send(data)

VARIABLES
  ws,          \* this.ws: NoSocket or the index of the current socket
  attempts,    \* this.attempts
  timer,       \* this.timer: Null, Undefined or a timer handle (1, 2, ...)
  maxAttempts, \* this.options.maxAttempts
  sockets,     \* readyState of every WebSocket created so far, by index
  pending,     \* host timer queue: handle -> event captured by the callback
  last,        \* the step just taken: operation, event and effect log
  failures,    \* abnormal close events and refused error events handled
               \* since the last open event (or since construction)
  nCallerOpen, \* caller calls of open()
  nReconnect,  \* onReconnect invocations
  didExhaust,  \* onDidExhaustMaxAttempts has been invoked
  closeCalled, \* the caller has called close()
  reopened     \* the caller has called open() after its last close()

vars == <<ws, attempts, timer, maxAttempts, sockets, pending, last, failures,
          nCallerOpen, nReconnect, didExhaust, closeCalled, reopened>>

\* ---------------------------------------------------------------- events
Ev(type, sock, code, err) ==
  [type |-> type, sock |-> sock, code |-> code, err |-> err]

NoEv == Ev("none", 0, 0, "")

\* one entry of the effect log of a step: a callback invoked with an event,
\* or a call made on a socket / the timer queue
Effect(f, e) == [f |-> f, ev |-> e]

Call(f, sock, arg) == Effect(f, Ev("call", sock, arg, ""))

Step(op, e, log, threw) == [op |-> op, ev |-> e, log |-> log, threw |-> threw]

Names(log) == {log[i].f : i \in DOMAIN log}

\* ------------------------------------------------------------- transport
NewSocket == "connecting"

\* WebSocket.close(): a socket that is connecting or open starts closing;
\* on a closing or closed socket the call has no effect
WsClose(socks, w) ==
  IF socks[w] \in {"connecting", "open"}
    THEN [socks EXCEPT ![w] = "closing"]
    ELSE socks

\* a connection attempt that is refused has failed: the transport reports
\* the error while the socket is connecting, the socket never opens and
\* its close event follows
FailConnection(socks, s) == [socks EXCEPT ![s] = "closing"]

\* setTimeout returns a handle that differs from every handle still in use:
\* the scheduled ones and the one this.timer holds
NewHandle(t, p) ==
  CHOOSE n \in 1..(Cardinality(DOMAIN p) + 2) :
    /\ n \notin DOMAIN p \cup {t}
    /\ \A k \in 1..(n - 1) : k \in DOMAIN p \cup {t}

\* ------------------------------------------------------------ predicates
UnderCapLE(a, m) == a <= m

UnderCapPre(a, m) == a + 1 < m

UnderCap(a, m) == a < m

IsNormalCodeNo1005(c) == c \in {1000, 1001}

IsNormalCode(c) == c \in NormalCodes

IsRefusedNever(e) == FALSE

IsRefusedAlways(e) == TRUE

IsRefused(e) == e.err = "ECONNREFUSED"

ResolveMaxAttempts(opt) == IF opt = NoOption THEN Infinity ELSE opt

CloseCode(code) == IF code = 0 THEN 1000 ELSE code

SendThrowsNever(w) == FALSE

SendThrowsAlways(w) == TRUE

SendThrows(w) == w = NoSocket

TimerSet(t) == t # Null

SuppressedNever(t) == FALSE

\* reconnect(): this.timer !== undefined is the "not suppressed" test
Suppressed(t) == t = Undefined

OnOpenAttemptsKeep(a) == a

OnOpenAttempts(a) == 0

TimerLogSilent(e, new) == <<Call("new WebSocket", new, 0)>>

TimerLogOpenFirst(e, new) ==
  <<Call("new WebSocket", new, 0), Effect("onReconnect", e)>>

\* effect log of the timer callback: onReconnect(e), then open()
TimerLog(e, new) == <<Effect("onReconnect", e), Call("new WebSocket", new, 0)>>

OnCloseLogEither(e, rlog) ==
  IF rlog # <<>> THEN rlog ELSE <<Effect("onClose", e)>>

\* effect log of ws.onclose: reconnect (if any) first, onClose always
OnCloseLog(e, rlog) == rlog \o <<Effect("onClose", e)>>

\* ------------------------------------------------------------- reconnect
\* this.reconnect(e) applied to the fields (w, socks, a, t, p, n); the
\* result carries the new values and the effect log
Reconnect(e, w, socks, a, t, p) ==
  LET n == NewHandle(t, p)
      closeLog == IF w # NoSocket
                    THEN <<Call("ws.close", w, 1000)>> ELSE <<>>
      socks1 == IF w # NoSocket THEN WsClose(socks, w) ELSE socks
  IN IF ~Suppressed(t) /\ UnderCap(a, maxAttempts)
       THEN [sockets |-> socks1, attempts |-> a + 1, timer |-> n,
             pending |-> (n :> e) @@ p,
             log |-> closeLog \o <<Call("setTimeout", e.sock, n)>>,
             exhausted |-> FALSE]
       ELSE [sockets |-> socks1,
             attempts |-> IF ~Suppressed(t) THEN a + 1 ELSE a,
             timer |-> t, pending |-> p,
             log |-> closeLog \o <<Effect("onDidExhaustMaxAttempts", e)>>,
             exhausted |-> TRUE]

\* bound: a socket may fail in a way that schedules a retry only while the
\* socket that retry creates still fits under MaxSockets
Room == Len(sockets) + Cardinality(DOMAIN pending) < MaxSockets

WouldSchedule == ~Suppressed(timer) /\ UnderCap(attempts, maxAttempts)

\* ------------------------------------------------------------------ Init
Init ==
  /\ ws = NoSocket
  /\ attempts = 0
  /\ timer = Null
  /\ \E opt \in (0..MaxAttemptsOpt) \cup {NoOption} :
       maxAttempts = ResolveMaxAttempts(opt)
  /\ sockets = <<>>
  /\ pending = <<>>
  /\ last = Step("new", NoEv, <<>>, FALSE)
  /\ failures = 0
  /\ nCallerOpen = 0
  /\ nReconnect = 0
  /\ didExhaust = FALSE
  /\ closeCalled = FALSE
  /\ reopened = FALSE

\* --------------------------------------------------------------- methods
\* send(data)
Send(data) ==
  /\ IF SendThrows(ws)
       THEN last' = Step("send", NoEv, <<>>, TRUE)
       ELSE last' = Step("send", NoEv, <<Call("ws.send", ws, data)>>, FALSE)
  /\ UNCHANGED <<ws, attempts, timer, maxAttempts, sockets, pending, failures,
                 nCallerOpen, nReconnect, didExhaust, closeCalled, reopened>>

\* close(code, reason)
Close(code) ==
  /\ timer' = IF TimerSet(timer) THEN Undefined ELSE timer
  /\ pending' = IF TimerSet(timer)
                  THEN [h \in DOMAIN pending \ {timer} |-> pending[h]]
                  ELSE pending
  /\ sockets' = IF ws # NoSocket THEN WsClose(sockets, ws) ELSE sockets
  /\ last' = Step("close", NoEv,
                  (IF TimerSet(timer) /\ timer # Undefined
                     THEN <<Call("clearTimeout", 0, timer)>> ELSE <<>>)
                  \o (IF ws # NoSocket
                        THEN <<Call("ws.close", ws, CloseCode(code))>>
                        ELSE <<>>),
                  FALSE)
  /\ closeCalled' = TRUE
  /\ reopened' = FALSE
  /\ UNCHANGED <<ws, attempts, maxAttempts, failures, nCallerOpen, nReconnect,
                 didExhaust>>

\* open(), called by the caller
Open ==
  /\ Room
  /\ sockets' = Append(sockets, NewSocket)
  /\ ws' = Len(sockets) + 1
  /\ last' = Step("open", NoEv, <<Call("new WebSocket", Len(sockets) + 1, 0)>>,
                  FALSE)
  /\ nCallerOpen' = nCallerOpen + 1
  /\ reopened' = closeCalled
  /\ UNCHANGED <<attempts, timer, maxAttempts, pending, failures, nReconnect,
                 didExhaust, closeCalled>>

\* the setTimeout callback of reconnect(): onReconnect(e), then open()
TimerFire(h) ==
  /\ h \in DOMAIN pending
  /\ pending' = [k \in DOMAIN pending \ {h} |-> pending[k]]
  /\ sockets' = Append(sockets, NewSocket)
  /\ ws' = Len(sockets) + 1
  /\ last' = Step("timer", pending[h], TimerLog(pending[h], Len(sockets) + 1),
                  FALSE)
  /\ nReconnect' = nReconnect + Cardinality({i \in DOMAIN last'.log :
                                     last'.log[i].f = "onReconnect"})
  /\ UNCHANGED <<attempts, timer, maxAttempts, failures, nCallerOpen,
                 didExhaust, closeCalled, reopened>>

\* -------------------------------------------------------- event handlers
\* ws.onmessage
OnMessage(s) ==
  /\ s \in DOMAIN sockets
  /\ sockets[s] = "open"
  /\ last' = Step("onmessage", Ev("message", s, 0, ""),
                  <<Effect("onMessage", Ev("message", s, 0, ""))>>, FALSE)
  /\ UNCHANGED <<ws, attempts, timer, maxAttempts, sockets, pending, failures,
                 nCallerOpen, nReconnect, didExhaust, closeCalled, reopened>>

\* ws.onopen
OnOpen(s) ==
  /\ s \in DOMAIN sockets
  /\ sockets[s] = "connecting"
  /\ sockets' = [sockets EXCEPT ![s] = "open"]
  /\ attempts' = OnOpenAttempts(attempts)
  /\ last' = Step("onopen", Ev("open", s, 0, ""),
                  <<Effect("onOpen", Ev("open", s, 0, ""))>>, FALSE)
  /\ failures' = 0
  /\ UNCHANGED <<ws, timer, maxAttempts, pending, nCallerOpen, nReconnect,
                 didExhaust, closeCalled, reopened>>

\* ws.onclose
OnClose(s, code) ==
  /\ s \in DOMAIN sockets
  /\ sockets[s] # "closed"
  /\ LET e == Ev("close", s, code, "")
         closed == [sockets EXCEPT ![s] = "closed"]
     IN IF ~IsNormalCode(code)
          THEN /\ ~WouldSchedule \/ Room
               /\ LET r == Reconnect(e, ws, closed, attempts, timer, pending)
                  IN /\ sockets' = r.sockets
                     /\ attempts' = r.attempts
                     /\ timer' = r.timer
                     /\ pending' = r.pending
                     /\ didExhaust' = (didExhaust \/ r.exhausted)
                     /\ last' = Step("onclose", e, OnCloseLog(e, r.log), FALSE)
               /\ failures' = failures + 1
          ELSE /\ sockets' = closed
               /\ last' = Step("onclose", e, OnCloseLog(e, <<>>), FALSE)
               /\ UNCHANGED <<attempts, timer, pending, didExhaust, failures>>
  /\ UNCHANGED <<ws, maxAttempts, nCallerOpen, nReconnect, closeCalled,
                 reopened>>

\* ws.onerror
OnError(s, err) ==
  /\ s \in DOMAIN sockets
  /\ sockets[s] # "closed"
  /\ LET e == Ev("error", s, 0, err)
     IN IF IsRefused(e)
          THEN /\ sockets[s] = "connecting"
               /\ ~WouldSchedule \/ Room
               /\ LET r == Reconnect(e, ws, FailConnection(sockets, s),
                                     attempts, timer, pending)
                  IN /\ sockets' = r.sockets
                     /\ attempts' = r.attempts
                     /\ timer' = r.timer
                     /\ pending' = r.pending
                     /\ didExhaust' = (didExhaust \/ r.exhausted)
                     /\ last' = Step("onerror", e, r.log, FALSE)
               /\ failures' = failures + 1
          ELSE /\ last' = Step("onerror", e, <<Effect("onError", e)>>, FALSE)
               /\ UNCHANGED <<sockets, attempts, timer, pending, didExhaust,
                              failures>>
  /\ UNCHANGED <<ws, maxAttempts, nCallerOpen, nReconnect, closeCalled,
                 reopened>>

\* ------------------------------------------------------------------ Next
Next ==
  \/ \E d \in Payloads : Send(d)
  \/ \E c \in CloseArgs : Close(c)
  \/ Open
  \/ \E h \in 1..(MaxSockets + 1) : TimerFire(h)
  \/ \E s \in 1..MaxSockets : OnMessage(s)
  \/ \E s \in 1..MaxSockets : OnOpen(s)
  \/ \E s \in 1..MaxSockets, c \in CloseEventCodes : OnClose(s, c)
  \/ \E s \in 1..MaxSockets, x \in ErrCodes : OnError(s, x)

Spec == Init /\ [][Next]_vars

\* timers that are scheduled and not cleared do fire
FairSpec == Spec /\ \A h \in 1..(MaxSockets + 1) : WF_vars(TimerFire(h))

\* the caller calls open() once and nothing else but send(); no socket ever
\* opens and every close event reports an abnormal code
OpenOnce == nCallerOpen = 0 /\ Open

FailingClose(s) == \E c \in CloseEventCodes \ NormalCodes : OnClose(s, c)

NextFailing ==
  \/ \E d \in Payloads : Send(d)
  \/ OpenOnce
  \/ \E h \in 1..(MaxSockets + 1) : TimerFire(h)
  \/ \E s \in 1..MaxSockets : FailingClose(s)
  \/ \E s \in 1..MaxSockets, x \in ErrCodes : OnError(s, x)

\* scheduled timers fire and every socket delivers its close event
FailingSpec ==
  /\ Init
  /\ [][NextFailing]_vars
  /\ \A h \in 1..(MaxSockets + 1) : WF_vars(TimerFire(h))
  /\ \A s \in 1..MaxSockets : WF_vars(FailingClose(s))

\* ================================================================ claims
Scheduled(st) == "setTimeout" \in Names(st.log)

Exhausted(st) == "onDidExhaustMaxAttempts" \in Names(st.log)

Reconnecting(st) == "onReconnect" \in Names(st.log)

AbnormalClose(st) == st.op = "onclose" /\ st.ev.code \notin {1000, 1001, 1005}

NormalClose(st) == st.op = "onclose" /\ st.ev.code \in {1000, 1001, 1005}

RefusedError(st) == st.op = "onerror" /\ st.ev.err = "ECONNREFUSED"

OtherError(st) == st.op = "onerror" /\ st.ev.err # "ECONNREFUSED"

\* C1 (as claimed): once close() has been called while a retry handle was
\* set (it cleared the handle and left timer undefined), onReconnect is
\* never invoked afterwards.
C1_NoReconnectAfterClose == timer = Undefined => ~Reconnecting(last)

\* C2 (as claimed): once the caller has called close(), in whatever state,
\* no later event schedules a retry timer (stated here for the case the
\* caller has not called open() again since).
C2_NoScheduleAfterClose == (closeCalled /\ ~reopened) => ~Scheduled(last)

\* C3: with maxAttempts = N and retries not suppressed, an abnormal close
\* event that is failure number k since attempts was last 0 (construction or
\* an open event) schedules a timer and reports no exhaustion when k <= N,
\* and reports exhaustion without scheduling when k = N + 1.
C3_CapCounting ==
  [][ (AbnormalClose(last') /\ timer # Undefined) =>
        /\ failures < maxAttempts => Scheduled(last') /\ ~Exhausted(last')
        /\ failures = maxAttempts => Exhausted(last') /\ ~Scheduled(last')
    ]_vars

C3_Witness ==
  /\ maxAttempts = 2
  /\ AbnormalClose(last)
  /\ last.ev.sock = 3
  /\ failures = 3
  /\ nCallerOpen = 1
  /\ timer # Undefined
  /\ Exhausted(last)

\* C4: every open event sets attempts to 0; while retries are not
\* suppressed attempts equals the number of failures since the last open
\* event, so the cap is counted afresh after each open; and with
\* maxAttempts 2, one caller open() and no close(), two failures (each
\* retried, no retry left pending) followed by an open event on the third
\* socket leave exactly two onReconnect calls, no onDidExhaustMaxAttempts
\* and attempts 0.
C4_OpenResets ==
  [][ /\ last'.op = "onopen" => attempts' = 0
      /\ timer' # Undefined => attempts' = failures'
      /\ ( /\ last'.op = "onopen"
           /\ last'.ev.sock = 3
           /\ Len(sockets) = 3
           /\ DOMAIN pending = {}
           /\ failures = 2
           /\ maxAttempts = 2
           /\ nCallerOpen = 1
           /\ ~closeCalled )
         => (nReconnect' = 2 /\ ~didExhaust' /\ attempts' = 0)
    ]_vars

C4_Witness ==
  /\ last.op = "onopen"
  /\ last.ev.sock = 3
  /\ maxAttempts = 2
  /\ nCallerOpen = 1
  /\ nReconnect = 2
  /\ ~closeCalled
  /\ ~didExhaust
  /\ attempts = 0
  /\ DOMAIN pending = {}
  /\ sockets = <<"closed", "closed", "open">>

\* C5: a close event with code 1000, 1001 or 1005 only invokes onClose: the
\* pending timers, the timer handle and attempts are unchanged and
\* onDidExhaustMaxAttempts is not invoked; no pending timer and no
\* onReconnect invocation ever carries such a close event.
C5_NormalCloseNoRetry ==
  [][ /\ NormalClose(last') =>
           /\ pending' = pending
           /\ timer' = timer
           /\ attempts' = attempts
           /\ didExhaust' = didExhaust
           /\ last'.log = <<Effect("onClose", last'.ev)>>
      /\ \A h \in DOMAIN pending' :
           ~(pending'[h].type = "close"
             /\ pending'[h].code \in {1000, 1001, 1005})
      /\ \A i \in DOMAIN last'.log :
           last'.log[i].f = "onReconnect" =>
             ~(last'.log[i].ev.type = "close"
               /\ last'.log[i].ev.code \in {1000, 1001, 1005})
    ]_vars

C5_Witness ==
  /\ NormalClose(last)
  /\ last.ev.code = 1005
  /\ DOMAIN pending # {}
  /\ ~closeCalled

\* C6: under fair timer firing, an abnormal close event of socket s handled
\* while the cap is not exhausted and close() has not been called leads to
\* an onReconnect invocation carrying that event, or to a call of close().
C6_AbnormalCloseReconnects ==
  \A s \in 1..MaxSockets :
    ( /\ AbnormalClose(last)
      /\ last.ev.sock = s
      /\ ~closeCalled
      /\ attempts <= maxAttempts )
    ~> ( \/ closeCalled
         \/ \E i \in DOMAIN last.log :
              /\ last.log[i].f = "onReconnect"
              /\ last.log[i].ev.type = "close"
              /\ last.log[i].ev.sock = s )

C6_Witness ==
  /\ last.op = "timer"
  /\ last.ev.type = "close"
  /\ last.ev.code = 1006
  /\ ~closeCalled
  /\ last.log[1] = Effect("onReconnect", last.ev)

\* C7: an error event with the ECONNREFUSED marker runs reconnect (closure
\* of the current socket requested, then either a timer scheduled or
\* onDidExhaustMaxAttempts invoked) and does not invoke onError; any other
\* error event invokes onError only and changes nothing else.
C7_ErrorOutcomes ==
  [][ /\ RefusedError(last') =>
           /\ "onError" \notin Names(last'.log)
           /\ Scheduled(last') # Exhausted(last')
           /\ last'.log[1] = Call("ws.close", ws, 1000)
      /\ OtherError(last') =>
           /\ last'.log = <<Effect("onError", last'.ev)>>
           /\ pending' = pending
           /\ timer' = timer
           /\ attempts' = attempts
           /\ sockets' = sockets
           /\ didExhaust' = didExhaust
    ]_vars

C7_Witness ==
  /\ RefusedError(last)
  /\ Scheduled(last)
  /\ last.log[1].f = "ws.close"

\* C8: handling a close event invokes onClose exactly once, as the last
\* effect of the handler, whatever the code and the instance state; for an
\* abnormal code the reconnect procedure (a timer scheduled or
\* onDidExhaustMaxAttempts invoked) comes before it.
C8_OnCloseAlways ==
  last.op = "onclose" =>
    /\ Cardinality({i \in DOMAIN last.log : last.log[i].f = "onClose"}) = 1
    /\ last.log[Len(last.log)] = Effect("onClose", last.ev)
    /\ AbnormalClose(last) =>
         \E i \in 1..(Len(last.log) - 1) :
           last.log[i].f \in {"setTimeout", "onDidExhaustMaxAttempts"}

C8_Witness ==
  /\ AbnormalClose(last)
  /\ timer = Undefined
  /\ Exhausted(last)
  /\ last.log[Len(last.log)].f = "onClose"

\* C9: send(data) before any open() throws, forwards nothing to a
\* transport and leaves ws, attempts, timer, the timer queue and the
\* sockets unchanged.
C9_SendBeforeOpen ==
  [][ (last'.op = "send" /\ nCallerOpen = 0) =>
        /\ last'.threw
        /\ last'.log = <<>>
        /\ ws' = ws
        /\ attempts' = attempts
        /\ timer' = timer
        /\ pending' = pending
        /\ sockets' = sockets
    ]_vars

C9_Witness ==
  /\ last.op = "send"
  /\ last.threw
  /\ nCallerOpen = 0
  /\ ws = NoSocket
  /\ closeCalled

\* C10: with maxAttempts = 0 every abnormal close event and every refused
\* error event invokes onDidExhaustMaxAttempts in its own handler, no timer
\* is ever scheduled and onReconnect is never invoked.
C10_ZeroAttempts ==
  maxAttempts = 0 =>
    /\ DOMAIN pending = {}
    /\ nReconnect = 0
    /\ ~Scheduled(last)
    /\ (AbnormalClose(last) \/ RefusedError(last)) => Exhausted(last)

C10_Witness ==
  /\ maxAttempts = 0
  /\ RefusedError(last)
  /\ Exhausted(last)
  /\ timer = Null

Live(socks) == {i \in DOMAIN socks : socks[i] \in {"connecting", "open"}}

\* C11 (as claimed): at most one retry timer is pending in every reachable
\* state.
C11_OnePendingTimer == Cardinality(DOMAIN pending) <= 1

\* C12 (as claimed): at most one socket created by the instance is live
\* (connecting or open, no closure requested) in every reachable state
\* (stated here for the case the caller has called open() at most once, so
\* that every other socket was created by a retry timer).
C12_OneLiveSocket == nCallerOpen <= 1 => Cardinality(Live(sockets)) <= 1

\* C13 (as claimed): when onDidExhaustMaxAttempts is invoked no retry timer
\* is pending.
C13_ExhaustedMeansIdle == Exhausted(last) => DOMAIN pending = {}

\* C14 (as claimed): onDidExhaustMaxAttempts is not invoked by a reconnect
\* that runs while retries are suppressed.
C14_SuppressedSkips == Exhausted(last) => timer # Undefined

\* C15 (as claimed): an abnormal close event or refused error event of a
\* socket that is no longer the current socket leaves the state of the
\* current socket unchanged (stated here for a current socket created by a
\* retry timer: the caller has called open() once).
C15_LateEventsIndependent ==
  [][ ( /\ AbnormalClose(last') \/ RefusedError(last')
        /\ nCallerOpen <= 1
        /\ ws # NoSocket
        /\ last'.ev.sock # ws )
      => sockets'[ws] = sockets[ws]
    ]_vars

C17_AttemptsFrame ==
  [][ /\ attempts' # attempts =>
           \/ last'.op = "onopen" /\ attempts' = 0
           \/ /\ AbnormalClose(last') \/ RefusedError(last')
              /\ attempts' = attempts + 1
      /\ ( \/ last'.op \in {"open", "send", "close", "timer", "onmessage"}
           \/ OtherError(last')
           \/ NormalClose(last') )
         => attempts' = attempts
    ]_vars

C17_Witness ==
  /\ OtherError(last)
  /\ attempts = 2
  /\ closeCalled
  /\ nReconnect > 0

\* C18: a timer firing invokes onReconnect with the event captured when the
\* timer was scheduled and then creates a fresh socket that becomes the
\* current one; sockets are created only by a caller open() or a timer
\* firing, and their number is the number of caller open() calls plus the
\* number of onReconnect invocations.
C18_TimerFiring ==
  [][ /\ last'.op = "timer" =>
           /\ \E h \in DOMAIN pending \ DOMAIN pending' :
                last'.log[1] = Effect("onReconnect", pending[h])
           /\ last'.log = <<last'.log[1],
                            Call("new WebSocket", Len(sockets) + 1, 0)>>
           /\ Len(sockets') = Len(sockets) + 1
           /\ sockets'[Len(sockets')] = "connecting"
           /\ ws' = Len(sockets')
           /\ nReconnect' = nReconnect + 1
      /\ Scheduled(last') =>
           \E h \in DOMAIN pending' \ DOMAIN pending :
             pending'[h] = last'.ev
      /\ Len(sockets') # Len(sockets) => last'.op \in {"open", "timer"}
      /\ Len(sockets') = nCallerOpen' + nReconnect'
    ]_vars

C18_Witness ==
  /\ last.op = "timer"
  /\ last.ev.type = "error"
  /\ nReconnect = 2
  /\ nCallerOpen = 1
  /\ Len(sockets) = 3

\* C19: once timer is undefined it stays undefined under every operation
\* and event, and no abnormal close event or refused error event schedules
\* a retry from then on.
C19_SuppressedAbsorbing ==
  [][ timer = Undefined => (timer' = Undefined /\ ~Scheduled(last')) ]_vars

C19_Witness ==
  /\ timer = Undefined
  /\ reopened
  /\ AbnormalClose(last)
  /\ last.ev.sock = ws
  /\ ~Scheduled(last)
  /\ attempts = 0

\* C20: once open() has been called this.ws is the most recently created
\* socket, and send(data) does not throw and forwards the data to that
\* socket whatever its readyState.
C20_SendAfterOpen ==
  nCallerOpen > 0 =>
    /\ ws = Len(sockets)
    /\ ws # NoSocket
    /\ last.op = "send" =>
         /\ ~last.threw
         /\ \E d \in Payloads : last.log = <<Call("ws.send", Len(sockets), d)>>

C20_Witness ==
  /\ last.op = "send"
  /\ ~last.threw
  /\ sockets[ws] = "closed"
  /\ closeCalled
  /\ didExhaust
  /\ Len(sockets) > 1

====
